---- MODULE Spec2Model ----
(***************************************************************************)
(* Model of the audityzer analyzer pipeline (src/src/analyzer) and of the  *)
(* nanosuit mode layer (src/src/nanosuit.rs).                              *)
(*                                                                         *)
(* Source text is a sequence of one-character strings.  A syntax tree is   *)
(* a record [n, parent, kind, tok]: nodes 1..n numbered in depth-first     *)
(* pre-order (so the children of a node, in increasing number, are its     *)
(* children in source order), parent[1] = 0, kind[v] the node's grammar    *)
(* kind and tok[v] the text of a leaf (<<>> for an inner node).  A node's  *)
(* byte range is the span of the leaves below it, as in tree-sitter.       *)
(***************************************************************************)
EXTENDS Integers, Sequences, FiniteSets, TLC

VARIABLES
    tree,          \* what the syntax tree provider returns for srcText
    detectors,     \* VulnerabilityAnalyzer.detectors (registry, by name)
    calls,         \* number of analyze calls made so far, counted up to MaxCalls
    lastSource,    \* argument of the latest analyze call
    result,        \* value returned by the latest analyze call
    visited,       \* nodes passed to traverse_node in the latest call, in order
    tested,        \* function-definition nodes that pushed a finding, in order
    ran,           \* names of the detectors whose detect ran in the latest call
    firstOk,       \* report of the first successful call (NoReport before it)
    failedBefore,  \* some earlier analyze call returned the parse error
    outs,          \* SortSpec: the findings each registered detector returns
    sortedOut,     \* SortSpec: the findings of the report built from outs
    current_mode,  \* NanosuitAnalyzer.current_mode
    energy_level,  \* NanosuitAnalyzer.energy_level, in halves of a unit
    lastOp         \* NanoSpec: the latest NanosuitAnalyzer call

vars == <<tree, detectors, calls, lastSource, result, visited, tested, ran,
          firstOk, failedBefore, outs, sortedOut, current_mode, energy_level,
          lastOp>>

\* ------------------------------------------------------------------ bounds
MaxNodes == 5
MaxCalls == 2
MaxFindings == 3
MaxDuration == 3

\* ------------------------------------------------------------ text helpers
Min(S) == CHOOSE x \in S : \A y \in S : x <= y

Max(S) == CHOOSE x \in S : \A y \in S : x >= y

\* str::contains(pat): plain substring search
Contains(text, pat) ==
    \E i \in 1..(Len(text) - Len(pat) + 1) :
        SubSeq(text, i, i + Len(pat) - 1) = pat

CallMarker == <<".", "c", "a", "l", "l", "{">>

TransferMarker == <<".", "t", "r", "a", "n", "s", "f", "e", "r", "(">>

SendMarker == <<".", "s", "e", "n", "d", "(">>

\* str::lines().count(): the text is cut after every "\n"; a last piece that
\* no "\n" ends is a line too, an empty last piece is not.
RECURSIVE LinesFrom(_, _, _)
LinesFrom(text, i, pending) ==
    IF i > Len(text) THEN (IF pending THEN 1 ELSE 0)
    ELSE IF text[i] = "\n" THEN 1 + LinesFrom(text, i + 1, FALSE)
    ELSE LinesFrom(text, i + 1, TRUE)

\* variant: source.split('\n').count(), the pieces between the newlines
LinesCountSplit(text) == Cardinality({i \in 1..Len(text) : text[i] = "\n"}) + 1

\* source.lines().count()
LinesCount(text) == LinesFrom(text, 1, FALSE)

\* ------------------------------------------------------------ syntax tree
\* The provider's outcome for a text it cannot parse (Parser::parse -> None)
NoTree == [n |-> 0, parent |-> <<>>, kind |-> <<>>, tok |-> <<>>]

\* Grammar kinds of the nodes below the root: a function definition always
\* has children in the grammar, so a leaf is an assignment or another
\* statement, and an inner node is any of the three (KindOf below).
\* the marker a leaf may hold: the three markers in turn, by node number
MarkerAt(v) ==
    IF v % 3 = 0 THEN CallMarker ELSE IF v % 3 = 1 THEN TransferMarker ELSE SendMarker

\* nodes a new last node may hang under: the last node and its ancestors
RECURSIVE RightSpine(_, _)
RightSpine(parent, v) == IF v = 0 THEN {} ELSE {v} \cup RightSpine(parent, parent[v])

\* the parent vectors of the ordered trees of n nodes, numbered in pre-order
RECURSIVE Shapes(_)
Shapes(n) ==
    IF n = 1 THEN {<<0>>}
    ELSE UNION {{Append(parent, p) : p \in RightSpine(parent, n - 1)} :
                parent \in Shapes(n - 1)}

IsLeaf(parent, v) == \A j \in 1..Len(parent) : parent[j] # v

\* The kind and text of node v under choice c: a leaf takes one of its two
\* kinds and one of its two texts (four choices), an inner node one of its
\* three kinds and no text of its own (three choices).
ChoiceOk(parent, v, c) == IsLeaf(parent, v) \/ c <= 3

KindOf(parent, v, c) ==
    IF v = 1 THEN "source_file"
    ELSE IF IsLeaf(parent, v)
         THEN (IF c <= 2 THEN "assignment_expression" ELSE "expression_statement")
    ELSE IF c = 1 THEN "function_definition"
    ELSE IF c = 2 THEN "assignment_expression"
    ELSE "expression_statement"

TokOf(parent, v, c) ==
    IF v = 1 \/ ~IsLeaf(parent, v) THEN <<>>
    ELSE IF c % 2 = 1 THEN <<"\n">> ELSE MarkerAt(v)

MkTree(parent, choice) ==
    [n |-> Len(parent),
     parent |-> parent,
     kind |-> [v \in 1..Len(parent) |-> KindOf(parent, v, choice[v])],
     tok |-> [v \in 1..Len(parent) |-> TokOf(parent, v, choice[v])]]

RECURSIVE Flatten(_, _, _)
Flatten(toks, i, j) == IF i > j THEN <<>> ELSE toks[i] \o Flatten(toks, i + 1, j)

\* the text the tree was parsed from
Source(t) == Flatten(t.tok, 1, t.n)

\* Node::children, as the sequence of child nodes in source order
RECURSIVE ChildrenFrom(_, _, _)
ChildrenFrom(t, v, i) ==
    IF i > t.n THEN <<>>
    ELSE IF t.parent[i] = v THEN <<i>> \o ChildrenFrom(t, v, i + 1)
    ELSE ChildrenFrom(t, v, i + 1)

Children(t, v) == ChildrenFrom(t, v, v + 1)

ChildCount(t, v) == Len(Children(t, v))

\* last node of the subtree of v (pre-order numbering)
SubEnd(t, v) ==
    LET later == {j \in (v + 1)..t.n : t.parent[j] < v}
    IN IF later = {} THEN t.n ELSE Min(later) - 1

\* Node::byte_range: 0-based start, exclusive end
ByteRange(t, v) ==
    [start |-> Len(Flatten(t.tok, 1, v - 1)),
     end |-> Len(Flatten(t.tok, 1, SubEnd(t, v)))]

\* &source[node.byte_range()]
NodeText(t, v) ==
    LET r == ByteRange(t, v) IN SubSeq(Source(t), r.start + 1, r.end)

\* Node::start_position: 0-based row and column of the node's first byte
StartPosition(t, v) ==
    LET start == ByteRange(t, v).start
        src == Source(t)
        nls == {i \in 1..start : src[i] = "\n"}
    IN [row |-> Cardinality(nls),
        column |-> IF nls = {} THEN start ELSE start - Max(nls)]

\* ------------------------------------------------------- vulnerability model
Severities == {"Critical", "High", "Medium", "Low", "Info"}

\* the values of impl Ord for Severity
SevVal(s) ==
    CASE s = "Critical" -> 4
      [] s = "High" -> 3
      [] s = "Medium" -> 2
      [] s = "Low" -> 1
      [] s = "Info" -> 0

\* Ordering of two integers (Ord::cmp)
Cmp(a, b) == IF a < b THEN "Less" ELSE IF a > b THEN "Greater" ELSE "Equal"

\* Severity::cmp
SeverityCmp(a, b) == Cmp(SevVal(a), SevVal(b))

\* ----------------------------------------------------- reentrancy detector
\* check_external_call
CheckExternalCall(t, v) ==
    LET text == NodeText(t, v)
    IN \/ Contains(text, CallMarker)
       \/ Contains(text, TransferMarker)
       \/ Contains(text, SendMarker)

\* the loop of check_state_change_after_call over the children from the i-th
RECURSIVE ScanChildren(_, _, _, _)
ScanChildren(t, kids, i, found_call) ==
    IF i > Len(kids) THEN FALSE
    ELSE IF CheckExternalCall(t, kids[i]) THEN ScanChildren(t, kids, i + 1, TRUE)
    ELSE IF found_call /\ t.kind[kids[i]] = "assignment_expression" THEN TRUE
    ELSE ScanChildren(t, kids, i + 1, found_call)

\* check_state_change_after_call
CheckStateChangeAfterCall(t, v) == ScanChildren(t, Children(t, v), 1, FALSE)

\* variant: the position of the function definition's last child
FindingPositionOfChild(t, v) ==
    IF ChildCount(t, v) = 0 THEN StartPosition(t, v)
    ELSE StartPosition(t, Children(t, v)[ChildCount(t, v)])

\* `let pos = node.start_position()`: the function definition's own start
FindingPosition(t, v) == StartPosition(t, v)

\* the Vulnerability pushed by traverse_node for function definition v
ReentrancyFinding(t, v) ==
    LET pos == FindingPosition(t, v)
    IN [severity |-> "Critical",
        title |-> "Reentrancy Vulnerability",
        description |-> "State change after external call detected",
        line |-> pos.row + 1,
        column |-> pos.column + 1,
        suggestion |-> "Use checks-effects-interactions pattern"]

\* The tree cursor is [root, cur]: the node it was last reset to and the node
\* it stands on (root itself or, after goto_first_child, a child of root).
\* TreeCursor::reset
CursorReset(v) == [root |-> v, cur |-> v]

\* TreeCursor::goto_first_child
GotoFirstChild(t, c) ==
    IF ChildCount(t, c.cur) = 0 THEN c
    ELSE [c EXCEPT !.cur = Children(t, c.cur)[1]]

\* TreeCursor::goto_next_sibling: a cursor never leaves the node it was reset to
GotoNextSibling(t, c) ==
    IF c.cur = c.root THEN c
    ELSE LET sibs == {j \in (c.cur + 1)..t.n : t.parent[j] = t.parent[c.cur]}
         IN IF sibs = {} THEN c ELSE [c EXCEPT !.cur = Min(sibs)]

\* The walk's state st: the one cursor detect creates and every traverse_node
\* call shares, the findings pushed so far, and (for the claims) the nodes
\* traverse_node was called with and the nodes that pushed a finding.
\* traverse_node(node): the test of the node, then `for child in
\* node.children(cursor)`.  Node::children resets the cursor to node and moves
\* it to the first child at once; each of its child_count steps yields
\* cursor.node() and then moves the cursor to the next sibling.  The loop body
\* hands the same cursor to the recursive call, which resets it again, so the
\* next step of the outer loop reads the cursor where the inner call left it.
\* (rustc rejects this second mutable borrow, E0499; the model follows what
\* the statements do when the cursor is shared as written.)
RECURSIVE TraverseNode(_, _, _)
RECURSIVE ChildLoop(_, _, _)
TraverseNode(t, node, st) ==
    LET hit == t.kind[node] = "function_definition" /\ CheckStateChangeAfterCall(t, node)
        st1 == [st EXCEPT
                  !.visited = Append(@, node),
                  !.vulns = IF hit THEN Append(@, ReentrancyFinding(t, node)) ELSE @,
                  !.tested = IF hit THEN Append(@, node) ELSE @,
                  !.cursor = GotoFirstChild(t, CursorReset(node))]
    IN ChildLoop(t, ChildCount(t, node), st1)

ChildLoop(t, remaining, st) ==
    IF remaining = 0 THEN st
    ELSE LET child == st.cursor.cur
             moved == [st EXCEPT !.cursor = GotoNextSibling(t, st.cursor)]
         IN ChildLoop(t, remaining - 1, TraverseNode(t, child, moved))

\* ReentrancyDetector::detect, with the walk's trace
ReentrancyWalk(t) ==
    TraverseNode(t, 1, [cursor |-> CursorReset(1), vulns |-> <<>>,
                        visited |-> <<>>, tested |-> <<>>])

\* ---------------------------------------------------------------- analyzer
\* the registry VulnerabilityAnalyzer::new builds, by VulnerabilityDetector::name
RegisteredDetectors ==
    <<"reentrancy-detector", "overflow-detector", "access-control-detector">>

\* what a detector that never walks the tree returns
NoWalk == [cursor |-> CursorReset(1), vulns |-> <<>>, visited |-> <<>>, tested |-> <<>>]

\* VulnerabilityDetector::detect of the detector called name: its findings
\* are the vulns field (the other fields are the walk's trace)
Detect(name, t) ==
    CASE name = "reentrancy-detector" -> ReentrancyWalk(t)
      [] name = "overflow-detector" -> NoWalk
      [] name = "access-control-detector" -> NoWalk

\* what the registered detectors from the i-th on return for tree t, in order
RECURSIVE DetectAll(_, _, _)
DetectAll(dets, t, i) ==
    IF i > Len(dets) THEN <<>>
    ELSE <<Detect(dets[i], t)>> \o DetectAll(dets, t, i + 1)

\* variant: severities compared the other way round (ascending)
CompareFindingsAscending(a, b) ==
    LET s == SeverityCmp(a.severity, b.severity)
    IN IF s # "Equal" THEN s ELSE Cmp(a.line, b.line)

\* the comparator handed to sort_by: b.severity.cmp(a.severity), then
\* a.line.cmp(b.line)
CompareFindings(a, b) ==
    LET s == SeverityCmp(b.severity, a.severity)
    IN IF s # "Equal" THEN s ELSE Cmp(a.line, b.line)

\* variant: an unstable sort, the element goes in front of its equals
InsertBeforeEqual(sorted, x) ==
    LET later == {i \in 1..Len(sorted) : CompareFindings(sorted[i], x) # "Less"}
        at == IF later = {} THEN Len(sorted) + 1 ELSE Min(later)
    IN SubSeq(sorted, 1, at - 1) \o <<x>> \o SubSeq(sorted, at, Len(sorted))

\* slice::sort_by is a stable sort: an element goes behind every element that
\* does not compare Greater than it.
InsertStable(sorted, x) ==
    LET later == {i \in 1..Len(sorted) : CompareFindings(sorted[i], x) = "Greater"}
        at == IF later = {} THEN Len(sorted) + 1 ELSE Min(later)
    IN SubSeq(sorted, 1, at - 1) \o <<x>> \o SubSeq(sorted, at, Len(sorted))

RECURSIVE SortFrom(_, _, _)
SortFrom(list, i, sorted) ==
    IF i > Len(list) THEN sorted
    ELSE SortFrom(list, i + 1, InsertStable(sorted, list[i]))

\* all_vulnerabilities.sort_by(...)
SortBy(list) == SortFrom(list, 1, <<>>)

\* variant: the list of the previous call is kept and extended
StaleVec == IF result.kind = "ok" THEN result.report.vulnerabilities ELSE <<>>

\* `let mut all_vulnerabilities = Vec::new()`
FreshVec == <<>>

\* the loop over self.detectors from the i-th: each detector's findings are
\* appended (Vec::extend) to all_vulnerabilities; found[i] is what detector i
\* returns
RECURSIVE RunDetectors(_, _, _, _)
RunDetectors(dets, found, i, acc) ==
    IF i > Len(dets) THEN acc
    ELSE RunDetectors(dets, found, i + 1,
                      [vulns |-> acc.vulns \o found[i].vulns,
                       ran |-> Append(acc.ran, dets[i]),
                       visited |-> acc.visited \o found[i].visited,
                       tested |-> acc.tested \o found[i].tested])

\* variant: detectors_run: all_vulnerabilities.len()
DetectorsRunFindings(dets, vulns) == Len(vulns)

\* detectors_run: self.detectors.len()
DetectorsRun(dets, vulns) == Len(dets)

\* the AnalysisReport analyze builds from what the detectors returned, with
\* the trace of the detector loop
BuildReport(dets, found, text) ==
    LET all == RunDetectors(dets, found, 1,
                            [vulns |-> FreshVec, ran |-> <<>>,
                             visited |-> <<>>, tested |-> <<>>])
    IN [report |-> [vulnerabilities |-> SortBy(all.vulns),
                    total_lines |-> LinesCount(text),
                    detectors_run |-> DetectorsRun(dets, all.vulns)],
        ran |-> all.ran, visited |-> all.visited, tested |-> all.tested]

NoReport == [vulnerabilities |-> <<>>, total_lines |-> 0, detectors_run |-> 0]

NoResult == [kind |-> "none", report |-> NoReport, error |-> ""]

\* a text for which the syntax tree provider returns no tree
UnparsableText == <<"?">>

\* variant: a parser that keeps failing once it has failed
ParseSticky(text) == IF failedBefore \/ text # Source(tree) THEN NoTree ELSE tree

\* self.parser.parse(source, None) with no old tree: the provider is a
\* function of the text, and tree is what it returns for the text Source(tree)
Parse(text) == IF text = Source(tree) THEN tree ELSE NoTree

\* VulnerabilityAnalyzer::analyze(source)
Analyze(text) ==
    /\ calls' = IF calls < MaxCalls THEN calls + 1 ELSE calls
    /\ lastSource' = text
    /\ LET t == Parse(text)
       IN IF t = NoTree
          THEN /\ result' = [kind |-> "err", report |-> NoReport,
                             error |-> "Failed to parse source code"]
               /\ visited' = <<>>
               /\ tested' = <<>>
               /\ ran' = <<>>
               /\ failedBefore' = TRUE
               /\ firstOk' = firstOk
          ELSE \E built \in {BuildReport(detectors, DetectAll(detectors, t, 1), text)} :
                  /\ result' = [kind |-> "ok", report |-> built.report, error |-> ""]
                  /\ visited' = built.visited
                  /\ tested' = built.tested
                  /\ ran' = built.ran
                  /\ failedBefore' = failedBefore
                  /\ firstOk' = IF firstOk = NoReport THEN built.report ELSE firstOk
    /\ UNCHANGED <<tree, detectors, outs, sortedOut, current_mode, energy_level, lastOp>>

\* the analyzer as VulnerabilityAnalyzer::new leaves it, before any call
AnalyzerNew ==
    /\ detectors = RegisteredDetectors
    /\ calls = 0
    /\ lastSource = <<>>
    /\ result = NoResult
    /\ visited = <<>>
    /\ tested = <<>>
    /\ ran = <<>>
    /\ firstOk = NoReport
    /\ failedBefore = FALSE

SortIdle == outs = <<>> /\ sortedOut = <<>>

NanoIdle == current_mode = "Speed" /\ energy_level = 0 /\ lastOp = [op |-> "none", arg |-> 0]

Init ==
    /\ \E n \in 1..MaxNodes :
          \E parent \in Shapes(n) :
             \E choice \in [1..n -> 1..4] :
                /\ choice[1] = 1
                /\ \A v \in 2..n : ChoiceOk(parent, v, choice[v])
                /\ tree = MkTree(parent, choice)
    /\ AnalyzerNew
    /\ SortIdle
    /\ NanoIdle

Next == \E text \in {Source(tree), UnparsableText} : Analyze(text)

Spec == Init /\ [][Next]_vars

\* ----------------------------------------- analyze over any detector output
\* The merge and sort of analyze as a function of what the registered
\* detectors return: outs[i] is the list detector i returns.
\* A Vulnerability of severity sev at line, told apart by its column
Finding(sev, line, col) ==
    [severity |-> sev, title |-> "t", description |-> "d",
     line |-> line, column |-> col, suggestion |-> "None"]

\* the line numbers the findings are drawn from
Lines == {1, 2}

SortInit ==
    /\ tree = NoTree
    /\ AnalyzerNew
    /\ NanoIdle
    /\ sortedOut = <<>>
    /\ \E len \in 0..MaxFindings :
          \E key \in [1..len -> Severities \X Lines] :
             \E cut1, cut2 \in 0..len :
                /\ cut1 <= cut2
                /\ LET all == [i \in 1..len |-> Finding(key[i][1], key[i][2], i)]
                   IN outs = <<SubSeq(all, 1, cut1), SubSeq(all, cut1 + 1, cut2),
                               SubSeq(all, cut2 + 1, len)>>

\* a detector's return value for each list of outs (no walk is traced)
ReturnedLists(lists) ==
    <<[NoWalk EXCEPT !.vulns = lists[1]], [NoWalk EXCEPT !.vulns = lists[2]],
      [NoWalk EXCEPT !.vulns = lists[3]]>>

\* analyze from the detector loop on, the detectors returning outs
MergeAndSort ==
    /\ calls = 0
    /\ calls' = 1
    /\ \E built \in {BuildReport(detectors, ReturnedLists(outs), lastSource)} :
          /\ result' = [kind |-> "ok", report |-> built.report, error |-> ""]
          /\ sortedOut' = built.report.vulnerabilities
    /\ UNCHANGED <<tree, detectors, lastSource, visited, tested, ran, firstOk,
                   failedBefore, outs, current_mode, energy_level, lastOp>>

SortNext == MergeAndSort

SortSpec == SortInit /\ [][SortNext]_vars

\* ---------------------------------------------------------------- nanosuit
\* energy_level is kept in quarters of a point and a duration in half
\* seconds, so that every product below is a whole number (the f64 values of
\* the code are then exact): 100.0 points are 400 quarters.
Modes == {"Strength", "Speed", "Armor", "Stealth"}

\* NanosuitMode::energy_cost, in quarter points per half second
EnergyCost(mode) ==
    CASE mode = "Strength" -> 5
      [] mode = "Speed" -> 2
      [] mode = "Armor" -> 6
      [] mode = "Stealth" -> 1

\* variant: the .max(0.0) left out
NoClamp(x) == x

\* f64::max(0.0)
ClampZero(x) == IF x < 0 THEN 0 ELSE x

\* NanosuitAnalyzer::has_energy: energy_level > 10.0
HasEnergy == energy_level > 10 * 4

\* NanosuitAnalyzer::new
NanoInit ==
    /\ tree = NoTree
    /\ AnalyzerNew
    /\ SortIdle
    /\ current_mode = "Speed"
    /\ energy_level = 100 * 4
    /\ lastOp = [op |-> "new", arg |-> 0]

\* NanosuitAnalyzer::switch_mode
SwitchMode(mode) ==
    /\ current_mode' = mode
    /\ lastOp' = [op |-> "switch_mode", arg |-> mode]
    /\ UNCHANGED <<tree, detectors, calls, lastSource, result, visited, tested, ran,
                   firstOk, failedBefore, outs, sortedOut, energy_level>>

\* NanosuitAnalyzer::consume_energy
ConsumeEnergy(duration) ==
    /\ LET cost == EnergyCost(current_mode) * duration
       IN energy_level' = ClampZero(energy_level - cost)
    /\ lastOp' = [op |-> "consume_energy", arg |-> duration]
    /\ UNCHANGED <<tree, detectors, calls, lastSource, result, visited, tested, ran,
                   firstOk, failedBefore, outs, sortedOut, current_mode>>

NanoNext ==
    \/ \E mode \in Modes : SwitchMode(mode)
    \/ \E duration \in 0..MaxDuration : ConsumeEnergy(duration)

NanoSpec == NanoInit /\ [][NanoNext]_vars

\* ------------------------------------------------------------------ claims
Range(seq) == {seq[i] : i \in 1..Len(seq)}

Occurrences(seq, x) == Cardinality({i \in 1..Len(seq) : seq[i] = x})

NewlineCount(text) == Cardinality({i \in 1..Len(text) : text[i] = "\n"})

\* the claim's condition on a function definition: among its direct children
\* a child whose text holds a marker comes before an assignment expression
\* whose own text holds none
CallThenAssignment(t, v) ==
    LET kids == Children(t, v)
    IN \E i, j \in 1..Len(kids) :
          /\ i < j
          /\ CheckExternalCall(t, kids[i])
          /\ t.kind[kids[j]] = "assignment_expression"
          /\ ~CheckExternalCall(t, kids[j])

\* C2: after a successful analysis every function-definition node of the tree
\* has exactly one finding recorded if a marker child precedes a marker-free
\* assignment child among its direct children, and none otherwise.
C2_OneFindingPerQualifyingFunction ==
    result.kind = "ok" =>
        \A v \in 1..tree.n :
            tree.kind[v] = "function_definition" =>
                Occurrences(tested, v) = IF CallThenAssignment(tree, v) THEN 1 ELSE 0

\* C3: after a successful analysis the walk has been called with every node of
\* the tree exactly once, in depth-first pre-order.
C3_WalkVisitsEveryNodeOnce ==
    result.kind = "ok" => visited = [i \in 1..tree.n |-> i]

C5_DetectorsRunIsRegistrySize ==
    result.kind = "ok" =>
        /\ result.report.detectors_run = 3
        /\ result.report.detectors_run = Len(detectors)
        /\ ran = <<"reentrancy-detector", "overflow-detector", "access-control-detector">>
        /\ Detect("overflow-detector", tree).vulns = <<>>
        /\ Detect("access-control-detector", tree).vulns = <<>>

C5_Witness ==
    /\ result.kind = "ok"
    /\ Len(result.report.vulnerabilities) = 1

C7_FindingFields ==
    result.kind = "ok" =>
        /\ Len(result.report.vulnerabilities) = Len(tested)
        /\ \A v \in Range(tested) :
              /\ tree.kind[v] = "function_definition"
              /\ [severity |-> "Critical",
                  title |-> "Reentrancy Vulnerability",
                  description |-> "State change after external call detected",
                  line |-> StartPosition(tree, v).row + 1,
                  column |-> StartPosition(tree, v).column + 1,
                  suggestion |-> "Use checks-effects-interactions pattern"]
                   \in Range(result.report.vulnerabilities)
        /\ \A f \in Range(result.report.vulnerabilities) :
              /\ f.line >= 1
              /\ f.column >= 1
              /\ \E v \in Range(tested) :
                    /\ f.line = StartPosition(tree, v).row + 1
                    /\ f.column = StartPosition(tree, v).column + 1

\* a flagged function whose assignment child starts on a later row
C7_Witness ==
    /\ result.kind = "ok"
    /\ \E v \in Range(tested) :
          \E c \in Range(Children(tree, v)) :
              /\ tree.kind[c] = "assignment_expression"
              /\ StartPosition(tree, c).row > StartPosition(tree, v).row

\* C8 as stated: total_lines is the number of pieces the newlines cut the text
\* into, one more than the number of newlines.
C8_LinesAreNewlineSegments ==
    result.kind = "ok" => result.report.total_lines = NewlineCount(lastSource) + 1

\* C8 amended: total_lines is the number of newlines, plus one when the text
\* is not empty and does not end with a newline.
C8_LinesAreTerminatedLines ==
    result.kind = "ok" =>
        result.report.total_lines =
            NewlineCount(lastSource)
            + (IF lastSource # <<>> /\ lastSource[Len(lastSource)] # "\n" THEN 1 ELSE 0)

\* a text of two lines that ends with a newline
C8_Witness ==
    /\ result.kind = "ok"
    /\ Len(lastSource) > 2
    /\ lastSource[Len(lastSource)] = "\n"
    /\ result.report.total_lines = 2

\* the claim's order of severities, highest first
SeverityOrder == <<"Critical", "High", "Medium", "Low", "Info">>

PlaceOf(sev) == CHOOSE i \in 1..Len(SeverityOrder) : SeverityOrder[i] = sev

\* what the detectors returned, in registration order
Merged == outs[1] \o outs[2] \o outs[3]

\* C1: in a report no finding comes before one of a higher severity, and of
\* two findings of the same severity the one at the smaller line comes first.
C1_ReportSorted ==
    calls = 1 =>
        \A i, j \in 1..Len(sortedOut) :
            i < j =>
                /\ PlaceOf(sortedOut[i].severity) <= PlaceOf(sortedOut[j].severity)
                /\ sortedOut[i].severity = sortedOut[j].severity =>
                      sortedOut[i].line <= sortedOut[j].line

\* a report the sort had to reorder by severity and by line
C1_Witness ==
    /\ calls = 1
    /\ Len(sortedOut) = 3
    /\ sortedOut[1].severity = "High"
    /\ sortedOut[2].severity = "Low"
    /\ sortedOut[3].severity = "Low"
    /\ sortedOut[2].line < sortedOut[3].line
    /\ sortedOut[1].column = 3
    /\ sortedOut[2].column = 2

\* C9: the report holds exactly the findings the detectors returned, and the
\* findings of any one severity and line stand in the report in the order
\* they have in the concatenation of the detectors' lists.
C9_StablePermutation ==
    calls = 1 =>
        /\ Len(sortedOut) = Len(Merged)
        /\ Range(sortedOut) = Range(Merged)
        /\ \A sev \in Severities, line \in Lines :
              LET Same(f) == f.severity = sev /\ f.line = line
              IN SelectSeq(sortedOut, Same) = SelectSeq(Merged, Same)

\* two findings of one severity and line from two detectors, behind a third
\* finding the sort moved in front of them
C9_Witness ==
    /\ calls = 1
    /\ Len(outs[1]) = 2
    /\ Len(outs[2]) = 1
    /\ Len(sortedOut) = 3
    /\ sortedOut[1].column = 2
    /\ sortedOut[2].column = 1
    /\ sortedOut[3].column = 3
    /\ sortedOut[2].severity = sortedOut[3].severity
    /\ sortedOut[2].line = sortedOut[3].line

\* C10: energy_level starts at 100 and the mode at Speed; energy_level never
\* increases and stays within 0..100; switch_mode sets the mode to its
\* argument and leaves energy_level alone; consume_energy leaves the mode
\* alone; once has_energy is false it stays false.
C10_EnergyMonotone ==
    /\ energy_level = 100 * 4 /\ current_mode = "Speed"
    /\ [](energy_level >= 0 /\ energy_level <= 100 * 4)
    /\ [][/\ energy_level' <= energy_level
          /\ lastOp'.op = "switch_mode" =>
                (energy_level' = energy_level /\ current_mode' = lastOp'.arg)
          /\ lastOp'.op = "consume_energy" => current_mode' = current_mode
          /\ ~HasEnergy => ~HasEnergy']_vars

\* energy used up by a call that would have taken it below zero, then a switch
C10_Witness ==
    /\ energy_level = 0
    /\ ~HasEnergy
    /\ lastOp = [op |-> "switch_mode", arg |-> "Armor"]
    /\ current_mode = "Armor"

====
